---- MODULE Spec2Model ----
(***************************************************************************)
(* Model of src/backend/server.js: one Express process that connects to a  *)
(* MongoDB collection ("cocktails"), serves CRUD / search routes over it,  *)
(* proxies image operations to a media store, and shuts down on signals    *)
(* and uncaught errors.                                                    *)
(*                                                                         *)
(* Library behaviour the model relies on (MongoDB Node driver, Node http): *)
(*  - find().skip(s).limit(l): a negative skip is rejected by the server;  *)
(*    limit 0 means "no limit"; a negative limit l asks for one batch of   *)
(*    at most -l documents (the default first batch holds 101).            *)
(*  - insertOne keeps a supplied _id, generates a fresh ObjectId when the  *)
(*    document has none, and fails on a duplicate _id.                     *)
(*  - an ObjectId never equals a string _id with the same hex digits.      *)
(*  - server.close(cb) stops accepting at once and calls cb when the last  *)
(*    connection has ended (also for a call made while already closing).   *)
(*  - a connect() that is still pending when close() is called does not    *)
(*    fulfil afterwards.                                                   *)
(*  - requests reach the handlers with req.body an object (body-parser     *)
(*    leaves {} when the request has no body).                             *)
(***************************************************************************)
EXTENDS Integers, Sequences, FiniteSets, TLC

VARIABLES
    cocktails,    \* documents of the "cocktails" collection, in natural order
    assets,       \* public ids of the images held by the media store
    collection,   \* the module-level handle: "undefined" or "handle"
    assigns,      \* history: number of assignments made to the handle
    server,       \* "undefined", "listening", "closing", "closed"
    client,       \* MongoClient: "connecting", "connected", "closing", "closed"
    startPc,      \* startServer(): "connecting", "done"
    shutdownPc,   \* each shutdown() invocation: position in the function
    exited,       \* "no", or who called process.exit: "startServer", "shutdown"
    inflight,     \* requests whose handler awaits the store or the media host
    nextOid,      \* next ObjectId the driver generates
    last          \* history: the response just sent, with what produced it

vars == << cocktails, assets, collection, assigns, server, client, startPc,
           shutdownPc, exited, inflight, nextOid, last >>

---------------------------------------------------------------------------
(* Bounds *)

MaxItems == 2        \* documents created in one run
MaxInFlight == 2     \* requests awaiting I/O at the same time
MaxShutdowns == 2    \* shutdown() invocations in one run
MaxAssets == 1       \* images uploaded in one run
MaxDocs == 102       \* largest collection the query specification starts from
MaxQueryItems == 2   \* size of the varied collections it starts from

(* Program constants *)

DefaultLimit == 10   \* Number(req.query.limit) || 10
ListCap == 100       \* Math.min(..., 100)
SearchCap == 20      \* Math.min(..., 20)

---------------------------------------------------------------------------
(* Values *)

Absent == "absent"
Fields == {"name", "tag"}
Vals == {"a", "b"}
FieldVals == Vals \cup {Absent}

Min(a, b) == IF a < b THEN a ELSE b

Oid(n) == [k |-> "oid", v |-> n]     \* ObjectId with hex digits n
StrId(n) == [k |-> "str", v |-> n]   \* the JSON string with the same digits

\* Identifier strings sent by clients: 0 is a missing (falsy) value, -1 the
\* string "bad", n >= 1 the 24-hex-digit string of ObjectId n.
NoId == 0
BadId == -1

NoBody == [f \in Fields |-> Absent]

\* Query parameters as sent: absent, a non-numeric text, or a number.
QAbsent == [kind |-> "absent", v |-> 0]
QText == [kind |-> "text", v |-> 0]
QNum(n) == [kind |-> "num", v |-> n]

NoFilters == [kind |-> "none", fs |-> << >>]
BadFilters == [kind |-> "garbage", fs |-> << >>]
JsonFilters(fs) == [kind |-> "json", fs |-> fs]
Filter(n, vs) == [filterName |-> n, filterValues |-> vs]

\* A request: the route and what the client sent. body holds the non-identifier
\* fields of the JSON body, id its _id / id member, pid its public_id member,
\* file whether the multipart field "image" came with it.
Req(op, pagination, limit, filters, search, body, id, pid, file) ==
    [op |-> op, pagination |-> pagination, limit |-> limit, filters |-> filters,
     search |-> search, body |-> body, id |-> id, pid |-> pid, file |-> file]

Idle == Req("idle", QAbsent, QAbsent, NoFilters, "", NoBody, NoId, 0, FALSE)

ListReq(p, l, fl) == Req("get-items", p, l, fl, "", NoBody, NoId, 0, FALSE)
SearchReq(p, l, s) == Req("search", p, l, NoFilters, s, NoBody, NoId, 0, FALSE)
AddReq(b, id) == Req("add", QAbsent, QAbsent, NoFilters, "", b, id, 0, FALSE)
EditReq(b, id) == Req("edit", QAbsent, QAbsent, NoFilters, "", b, id, 0, FALSE)
DeleteReq(id) == Req("delete", QAbsent, QAbsent, NoFilters, "", NoBody, id, 0, FALSE)
UploadReq(file) == Req("upload-image", QAbsent, QAbsent, NoFilters, "", NoBody, NoId, 0, file)
EditImageReq(pid, file) == Req("edit-image", QAbsent, QAbsent, NoFilters, "", NoBody, NoId, pid, file)
DeleteImageReq(pid) == Req("delete-image", QAbsent, QAbsent, NoFilters, "", NoBody, NoId, pid, FALSE)

NoLast ==
    [op |-> "none", req |-> Idle, status |-> 0, items |-> << >>,
     isEndOfCollection |-> FALSE, insertedId |-> Oid(0), matchedCount |-> 0,
     deletedCount |-> 0, storeOps |-> 0, mediaOps |-> 0,
     before |-> << >>, after |-> << >>, assetsBefore |-> {}, assetsAfter |-> {},
     closing |-> FALSE]

---------------------------------------------------------------------------
(* Route parameter parsing *)

\* Number(q) || d : NaN (absent, non-numeric) and 0 are falsy.
NumberOr(q, d) == IF q.kind = "num" /\ q.v # 0 THEN q.v ELSE d

RoutePagination(q) == NumberOr(q, 0)
ListLimit(q) == Min(NumberOr(q, DefaultLimit), ListCap)
SearchLimit(q) == Min(NumberOr(q, DefaultLimit), SearchCap)

\* !search, after String(req.query.search || "")
MissingSearch(search) == search = ""

\* !data || Object.keys(data).length === 0
EmptyBody(body, id) == id = NoId /\ \A f \in Fields : body[f] = Absent

LacksIdNever(id) == FALSE
\* !data || !data._id , !data || !data.id , !public_id
LacksId(id) == id = NoId

ObjectIdIsValidAny(s) == TRUE
\* ObjectId.isValid(String(id))
ObjectIdIsValid(s) == s >= 1

---------------------------------------------------------------------------
(* The document store *)

\* preparedFilters[filter.filterName] = { $in: filter.filterValues }, in order:
\* a later filter on a name replaces the earlier one.
LastWith(fs, n) ==
    CHOOSE i \in DOMAIN fs :
        /\ fs[i].filterName = n
        /\ \A j \in DOMAIN fs : j > i => fs[j].filterName # n

PreparedFilters(fs) ==
    [n \in {fs[i].filterName : i \in DOMAIN fs} |-> fs[LastWith(fs, n)].filterValues]

\* find(preparedFilters): every named field is $in its values.
MatchesFilters(item, pf) == \A n \in DOMAIN pf : item.f[n] \in pf[n]

\* find({ $text: { $search } }) over the text index, here on the name field.
MatchesText(item, search) == item.f["name"] = search

\* skip(s).limit(l).toArray() over the matching documents.
Cursor(matched, skip, limit) ==
    LET rest == SubSeq(matched, skip + 1, Len(matched))
        n == IF limit = 0 THEN Len(rest)
             ELSE IF limit < 0 THEN Min(Min(-limit, 101), Len(rest))
             ELSE Min(limit, Len(rest))
    IN  SubSeq(rest, 1, n)

IsEndOfCollectionLoose(items, limit) == Len(items) <= limit
\* if (items.length < limit) isEndOfCollection = true
IsEndOfCollection(items, limit) == Len(items) < limit

\* getItems after the filters parsed; the store rejects a negative skip.
GetItems(coll, pagination, limit, fs) ==
    LET pf == PreparedFilters(fs)
        matched == SelectSeq(coll, LAMBDA it : MatchesFilters(it, pf))
        items == Cursor(matched, pagination, limit)
    IN  IF pagination < 0
        THEN [ok |-> FALSE, items |-> << >>, isEndOfCollection |-> FALSE]
        ELSE [ok |-> TRUE, items |-> items,
              isEndOfCollection |-> IsEndOfCollection(items, limit)]

GetItemsByName(coll, pagination, limit, search) ==
    LET matched == SelectSeq(coll, LAMBDA it : MatchesText(it, search))
        items == Cursor(matched, pagination, limit)
    IN  IF pagination < 0
        THEN [ok |-> FALSE, items |-> << >>, isEndOfCollection |-> FALSE]
        ELSE [ok |-> TRUE, items |-> items,
              isEndOfCollection |-> IsEndOfCollection(items, limit)]

HasId(coll, id) == \E i \in DOMAIN coll : coll[i].id = id

\* collection.insertOne(data): data._id is kept when present.
Add(coll, body, id, oid) ==
    LET docId == IF id = NoId THEN Oid(oid) ELSE StrId(id)
    IN  IF HasId(coll, docId)
        THEN [ok |-> FALSE, coll |-> coll, insertedId |-> docId]
        ELSE [ok |-> TRUE, coll |-> Append(coll, [id |-> docId, f |-> body]),
              insertedId |-> docId]

FirstWith(coll, id) ==
    CHOOSE i \in DOMAIN coll :
        coll[i].id = id /\ \A j \in DOMAIN coll : j < i => coll[j].id # id

EditReplacing(coll, body, id) ==
    IF HasId(coll, Oid(id))
    THEN [coll |-> [coll EXCEPT ![FirstWith(coll, Oid(id))].f = body],
          matchedCount |-> 1]
    ELSE [coll |-> coll, matchedCount |-> 0]
\* preparedData = data without _id;
\* updateOne({ _id: new ObjectId(data._id) }, { $set: preparedData })
Edit(coll, body, id) ==
    IF HasId(coll, Oid(id))
    THEN [coll |-> [coll EXCEPT ![FirstWith(coll, Oid(id))].f =
                       [f \in Fields |-> IF body[f] # Absent THEN body[f] ELSE @[f]]],
          matchedCount |-> 1]
    ELSE [coll |-> coll, matchedCount |-> 0]

RemoveAt(coll, i) == SubSeq(coll, 1, i - 1) \o SubSeq(coll, i + 1, Len(coll))

RemoveByDigits(coll, id) ==
    IF \E i \in DOMAIN coll : coll[i].id.v = id
    THEN [coll |-> SelectSeq(coll, LAMBDA it : it.id.v # id), deletedCount |-> 1]
    ELSE [coll |-> coll, deletedCount |-> 0]
\* deleteOne({ _id: new ObjectId(data.id) })
Remove(coll, id) ==
    IF HasId(coll, Oid(id))
    THEN [coll |-> RemoveAt(coll, FirstWith(coll, Oid(id))), deletedCount |-> 1]
    ELSE [coll |-> coll, deletedCount |-> 0]

---------------------------------------------------------------------------
(* The media store *)

\* what the media host answers with once the asset is stored
Stored(held, pid) == held \cup {pid}

\* cloudinary.uploader.destroy(public_id)
Destroy(held, pid) == held \ {pid}

\* a public id the media host has not given out
FreshAsset(held) == CHOOSE p \in 1..(Cardinality(held) + 1) : p \notin held

---------------------------------------------------------------------------
(* Process state *)

Slots == 1..MaxInFlight
Calls == 1..MaxShutdowns

Init ==
    /\ cocktails = << >>
    /\ assets = {}
    /\ collection = "undefined"
    /\ assigns = 0
    /\ server = "undefined"
    /\ client = "connecting"
    /\ startPc = "connecting"
    /\ shutdownPc = [c \in Calls |-> "none"]
    /\ exited = "no"
    /\ inflight = [i \in Slots |-> Idle]
    /\ nextOid = 1
    /\ last = NoLast

Running == exited = "no"

\* the listening socket hands a request to its route
Accepting == Running /\ server = "listening"

DrainedAlways == TRUE
\* server.close(resolve): resolve runs once no connection is left
Drained == \A i \in Slots : inflight[i] = Idle

\* operations on the collection handle reach the store
StoreUp == collection = "handle" /\ client = "connected"

FreeSlots == {i \in Slots : inflight[i] = Idle}

\* the handler stops at its await (last then holds no response: the one
\* before went out earlier)
Await(r) ==
    /\ FreeSlots # {}
    /\ inflight' = [inflight EXCEPT
                      ![CHOOSE i \in FreeSlots : \A j \in FreeSlots : i <= j] = r]
    /\ last' = NoLast

Base(r) ==
    [NoLast EXCEPT !.op = r.op, !.req = r, !.before = cocktails, !.after = cocktails,
                   !.assetsBefore = assets, !.assetsAfter = assets,
                   !.closing = (server = "closing")]

\* res.status(code).json(...) before any await
Reply(r, code) ==
    /\ last' = [Base(r) EXCEPT !.status = code]
    /\ UNCHANGED inflight

lifecycle == << collection, assigns, server, client, startPc, shutdownPc, exited >>

\* documents created so far or about to be (string ids are never deleted)
Created ==
    (nextOid - 1)
    + Cardinality({i \in DOMAIN cocktails : cocktails[i].id.k = "str"})
    + Cardinality({i \in Slots : inflight[i].op = "add"})

Uploaded ==
    Cardinality(assets)
    + Cardinality({i \in Slots : inflight[i].op \in {"upload-image", "edit-image"}})

---------------------------------------------------------------------------
(* startServer *)

ConnectResolvesNoAssign ==
    /\ Running /\ startPc = "connecting" /\ client = "connecting"
    /\ client' = "connected"
    /\ server' = "listening"
    /\ startPc' = "done"
    /\ UNCHANGED << cocktails, assets, collection, assigns, shutdownPc, exited,
                    inflight, nextOid, last >>
\* await client.connect() fulfils: the handle is assigned, then app.listen
ConnectResolves ==
    /\ Running /\ startPc = "connecting" /\ client = "connecting"
    /\ client' = "connected"
    /\ collection' = "handle"
    /\ assigns' = assigns + 1
    /\ server' = "listening"
    /\ startPc' = "done"
    /\ UNCHANGED << cocktails, assets, shutdownPc, exited, inflight, nextOid, last >>

\* await client.connect() rejects: process.exit(1)
ConnectRejects ==
    /\ Running /\ startPc = "connecting"
    /\ exited' = "startServer"
    /\ UNCHANGED << cocktails, assets, collection, assigns, server, client, startPc,
                    shutdownPc, inflight, nextOid, last >>

---------------------------------------------------------------------------
(* shutdown *)

\* client.close() is called
CloseClient == IF client = "closed" THEN "closed" ELSE "closing"

\* SIGINT, SIGTERM, uncaughtException, unhandledRejection: shutdown(code) runs
\* to its first await
ShutdownBegins(c) ==
    /\ Running /\ shutdownPc[c] = "none"
    /\ \A d \in Calls : d < c => shutdownPc[d] # "none"
    /\ IF server # "undefined"
       THEN /\ server' = IF server = "listening" THEN "closing" ELSE server
            /\ shutdownPc' = [shutdownPc EXCEPT ![c] = "awaitServerClose"]
            /\ UNCHANGED client
       ELSE /\ client' = CloseClient
            /\ shutdownPc' = [shutdownPc EXCEPT ![c] = "awaitClientClose"]
            /\ UNCHANGED server
    /\ UNCHANGED << cocktails, assets, collection, assigns, startPc, exited,
                    inflight, nextOid, last >>

\* the server emits "close"
ServerCloses ==
    /\ Running /\ server = "closing" /\ Drained
    /\ server' = "closed"
    /\ UNCHANGED << cocktails, assets, collection, assigns, client, startPc,
                    shutdownPc, exited, inflight, nextOid, last >>

\* await new Promise(resolve => server.close(resolve)) returns; client.close()
ShutdownClosesClient(c) ==
    /\ Running /\ shutdownPc[c] = "awaitServerClose" /\ server = "closed"
    /\ client' = CloseClient
    /\ shutdownPc' = [shutdownPc EXCEPT ![c] = "awaitClientClose"]
    /\ UNCHANGED << cocktails, assets, collection, assigns, server, startPc, exited,
                    inflight, nextOid, last >>

\* the driver has released the connection
ClientCloses ==
    /\ Running /\ client = "closing"
    /\ client' = "closed"
    /\ UNCHANGED << cocktails, assets, collection, assigns, server, startPc,
                    shutdownPc, exited, inflight, nextOid, last >>

\* await client.close() returns; finally process.exit(code)
ShutdownExits(c) ==
    /\ Running /\ shutdownPc[c] = "awaitClientClose" /\ client = "closed"
    /\ shutdownPc' = [shutdownPc EXCEPT ![c] = "exited"]
    /\ exited' = "shutdown"
    /\ UNCHANGED << cocktails, assets, collection, assigns, server, client, startPc,
                    inflight, nextOid, last >>

---------------------------------------------------------------------------
(* Routes: the handler up to its first await, or to its response *)

\* GET /api/get-items ; getItems up to collection.find
GetItemsRoute(r) ==
    /\ Accepting /\ r.op = "get-items"
    /\ IF r.filters.kind = "garbage" THEN Reply(r, 500) ELSE Await(r)
    /\ UNCHANGED << cocktails, assets, nextOid, lifecycle >>

\* GET /api/search ; getItemsByName up to collection.find
SearchRoute(r) ==
    /\ Accepting /\ r.op = "search"
    /\ IF MissingSearch(r.search) THEN Reply(r, 400) ELSE Await(r)
    /\ UNCHANGED << cocktails, assets, nextOid, lifecycle >>

\* POST /api/add ; add up to collection.insertOne
AddRoute(r) ==
    /\ Accepting /\ r.op = "add"
    /\ IF EmptyBody(r.body, r.id) THEN Reply(r, 400)
       ELSE Created < MaxItems /\ Await(r)
    /\ UNCHANGED << cocktails, assets, nextOid, lifecycle >>

\* PUT /api/edit ; edit up to collection.updateOne
EditRoute(r) ==
    /\ Accepting /\ r.op = "edit"
    /\ IF LacksId(r.id) THEN Reply(r, 400)
       ELSE IF ~ObjectIdIsValid(r.id) THEN Reply(r, 500)
       ELSE Await(r)
    /\ UNCHANGED << cocktails, assets, nextOid, lifecycle >>

\* DELETE /api/delete ; remove up to collection.deleteOne
DeleteRoute(r) ==
    /\ Accepting /\ r.op = "delete"
    /\ IF LacksId(r.id) THEN Reply(r, 400)
       ELSE IF ~ObjectIdIsValid(r.id) THEN Reply(r, 500)
       ELSE Await(r)
    /\ UNCHANGED << cocktails, assets, nextOid, lifecycle >>

\* POST /api/upload-image up to the upload stream (req.file.buffer throws
\* without a file)
UploadImageRoute(r) ==
    /\ Accepting /\ r.op = "upload-image"
    /\ IF ~r.file THEN Reply(r, 500) ELSE Uploaded < MaxAssets /\ Await(r)
    /\ UNCHANGED << cocktails, assets, nextOid, lifecycle >>

\* POST /api/edit-image up to the upload stream
EditImageRoute(r) ==
    /\ Accepting /\ r.op = "edit-image"
    /\ IF ~r.file THEN Reply(r, 500) ELSE Uploaded < MaxAssets /\ Await(r)
    /\ UNCHANGED << cocktails, assets, nextOid, lifecycle >>

\* DELETE /api/delete-image up to cloudinary.uploader.destroy
DeleteImageRoute(r) ==
    /\ Accepting /\ r.op = "delete-image"
    /\ IF LacksId(r.pid) THEN Reply(r, 400) ELSE Await(r)
    /\ UNCHANGED << cocktails, assets, nextOid, lifecycle >>

---------------------------------------------------------------------------
(* Routes: the store or the media host answers and the response is sent *)

Answered(i) == inflight' = [inflight EXCEPT ![i] = Idle]

FindFailed == [ok |-> FALSE, items |-> << >>, isEndOfCollection |-> FALSE]

\* getItems from toArray() on ; res.json(response)
GetItemsDone(i) ==
    /\ Running /\ inflight[i].op = "get-items"
    /\ LET r == inflight[i]
           res == IF StoreUp
                  THEN GetItems(cocktails, RoutePagination(r.pagination),
                                ListLimit(r.limit), r.filters.fs)
                  ELSE FindFailed
       IN  last' = [Base(r) EXCEPT !.status = IF res.ok THEN 200 ELSE 500,
                                   !.items = res.items,
                                   !.isEndOfCollection = res.isEndOfCollection,
                                   !.storeOps = 1]
    /\ Answered(i)
    /\ UNCHANGED << cocktails, assets, nextOid, lifecycle >>

\* getItemsByName from toArray() on ; res.json(response)
SearchDone(i) ==
    /\ Running /\ inflight[i].op = "search"
    /\ LET r == inflight[i]
           res == IF StoreUp
                  THEN GetItemsByName(cocktails, RoutePagination(r.pagination),
                                      SearchLimit(r.limit), r.search)
                  ELSE FindFailed
       IN  last' = [Base(r) EXCEPT !.status = IF res.ok THEN 200 ELSE 500,
                                   !.items = res.items,
                                   !.isEndOfCollection = res.isEndOfCollection,
                                   !.storeOps = 1]
    /\ Answered(i)
    /\ UNCHANGED << cocktails, assets, nextOid, lifecycle >>

\* insertOne settles ; res.status(201).json(response)
AddDone(i) ==
    /\ Running /\ inflight[i].op = "add"
    /\ LET r == inflight[i]
           res == IF StoreUp
                  THEN Add(cocktails, r.body, r.id, nextOid)
                  ELSE [ok |-> FALSE, coll |-> cocktails, insertedId |-> Oid(0)]
       IN  /\ cocktails' = res.coll
           /\ nextOid' = IF res.ok /\ r.id = NoId THEN nextOid + 1 ELSE nextOid
           /\ last' = [Base(r) EXCEPT !.status = IF res.ok THEN 201 ELSE 500,
                                      !.insertedId = res.insertedId,
                                      !.after = res.coll,
                                      !.storeOps = 1]
    /\ Answered(i)
    /\ UNCHANGED << assets, lifecycle >>

\* updateOne settles ; res.json({ message })
EditDone(i) ==
    /\ Running /\ inflight[i].op = "edit"
    /\ LET r == inflight[i]
           res == IF StoreUp
                  THEN Edit(cocktails, r.body, r.id)
                  ELSE [coll |-> cocktails, matchedCount |-> 0]
       IN  /\ cocktails' = res.coll
           /\ last' = [Base(r) EXCEPT !.status = IF StoreUp THEN 200 ELSE 500,
                                      !.matchedCount = res.matchedCount,
                                      !.after = res.coll,
                                      !.storeOps = 1]
    /\ Answered(i)
    /\ UNCHANGED << assets, nextOid, lifecycle >>

\* deleteOne settles ; res.json(response)
DeleteDone(i) ==
    /\ Running /\ inflight[i].op = "delete"
    /\ LET r == inflight[i]
           res == IF StoreUp
                  THEN Remove(cocktails, r.id)
                  ELSE [coll |-> cocktails, deletedCount |-> 0]
       IN  /\ cocktails' = res.coll
           /\ last' = [Base(r) EXCEPT !.status = IF StoreUp THEN 200 ELSE 500,
                                      !.deletedCount = res.deletedCount,
                                      !.after = res.coll,
                                      !.storeOps = 1]
    /\ Answered(i)
    /\ UNCHANGED << assets, nextOid, lifecycle >>

\* the upload stream calls back ; res.json({ url, public_id })
UploadImageDone(i) ==
    /\ Running /\ inflight[i].op = "upload-image"
    /\ assets' = Stored(assets, FreshAsset(assets))
    /\ last' = [Base(inflight[i]) EXCEPT !.status = 200, !.assetsAfter = assets',
                                         !.mediaOps = 1]
    /\ Answered(i)
    /\ UNCHANGED << cocktails, nextOid, lifecycle >>

\* the overwriting upload calls back ; res.json({ message })
EditImageDone(i) ==
    /\ Running /\ inflight[i].op = "edit-image"
    /\ LET r == inflight[i]
       IN  assets' = Stored(assets, IF r.pid = 0 THEN FreshAsset(assets) ELSE r.pid)
    /\ last' = [Base(inflight[i]) EXCEPT !.status = 200, !.assetsAfter = assets',
                                         !.mediaOps = 1]
    /\ Answered(i)
    /\ UNCHANGED << cocktails, nextOid, lifecycle >>

\* destroy settles ; res.json(result)
DeleteImageDone(i) ==
    /\ Running /\ inflight[i].op = "delete-image"
    /\ assets' = Destroy(assets, inflight[i].pid)
    /\ last' = [Base(inflight[i]) EXCEPT !.status = 200, !.assetsAfter = assets',
                                         !.mediaOps = 1]
    /\ Answered(i)
    /\ UNCHANGED << cocktails, nextOid, lifecycle >>

---------------------------------------------------------------------------
(* The whole process, with a few requests of every route *)

IdStrings == {NoId, BadId} \cup 1..MaxItems
PublicIds == 0..MaxAssets

NameA == [NoBody EXCEPT !["name"] = "a"]
TagB == [NoBody EXCEPT !["tag"] = "b"]

ListReqs == {ListReq(QAbsent, QAbsent, fl) : fl \in {NoFilters, BadFilters}}
SearchReqs == {SearchReq(QAbsent, QAbsent, s) : s \in {"", "a"}}
AddReqs == {AddReq(NoBody, NoId), AddReq(NameA, NoId)}
EditReqs == {EditReq(TagB, id) : id \in {NoId, BadId, 1}}
DeleteReqs == {DeleteReq(id) : id \in {NoId, BadId, 1}}
UploadReqs == {UploadReq(f) : f \in BOOLEAN}
EditImageReqs == {EditImageReq(1, f) : f \in BOOLEAN}
DeleteImageReqs == {DeleteImageReq(pid) : pid \in PublicIds}

Next ==
    \/ ConnectResolves
    \/ ConnectRejects
    \/ \E c \in Calls : ShutdownBegins(c)
    \/ ServerCloses
    \/ \E c \in Calls : ShutdownClosesClient(c)
    \/ ClientCloses
    \/ \E c \in Calls : ShutdownExits(c)
    \/ \E r \in ListReqs : GetItemsRoute(r)
    \/ \E r \in SearchReqs : SearchRoute(r)
    \/ \E r \in AddReqs : AddRoute(r)
    \/ \E r \in EditReqs : EditRoute(r)
    \/ \E r \in DeleteReqs : DeleteRoute(r)
    \/ \E r \in UploadReqs : UploadImageRoute(r)
    \/ \E r \in EditImageReqs : EditImageRoute(r)
    \/ \E r \in DeleteImageReqs : DeleteImageRoute(r)
    \/ \E i \in Slots : GetItemsDone(i)
    \/ \E i \in Slots : SearchDone(i)
    \/ \E i \in Slots : AddDone(i)
    \/ \E i \in Slots : EditDone(i)
    \/ \E i \in Slots : DeleteDone(i)
    \/ \E i \in Slots : UploadImageDone(i)
    \/ \E i \in Slots : EditImageDone(i)
    \/ \E i \in Slots : DeleteImageDone(i)

Spec == Init /\ [][Next]_vars

---------------------------------------------------------------------------
(* The routes that write, one request at a time, with every payload *)

NameB == [NoBody EXCEPT !["name"] = "b"]
NameBTagA == [NoBody EXCEPT !["name"] = "b", !["tag"] = "a"]
Bodies == {NoBody, NameA, NameB, TagB, NameBTagA}

CrudAddReqs == {AddReq(b, id) : b \in Bodies, id \in {NoId, 1}}
CrudEditReqs == {EditReq(b, id) : b \in Bodies, id \in IdStrings}
CrudDeleteReqs == {DeleteReq(id) : id \in IdStrings}

NextCrud ==
    \/ ConnectResolves
    \/ Drained /\ \E r \in CrudAddReqs : AddRoute(r)
    \/ Drained /\ \E r \in CrudEditReqs : EditRoute(r)
    \/ Drained /\ \E r \in CrudDeleteReqs : DeleteRoute(r)
    \/ \E i \in Slots : AddDone(i)
    \/ \E i \in Slots : EditDone(i)
    \/ \E i \in Slots : DeleteDone(i)

SpecCrud == Init /\ [][NextCrud]_vars

---------------------------------------------------------------------------
(* The routes that read, over collections of every shape *)

\* n documents a search for "a" and a filter tag = "b" both match
Uniform(n) == [i \in 1..n |-> [id |-> Oid(i), f |-> [NoBody EXCEPT !["name"] = "a", !["tag"] = "b"]]]

Varied ==
    UNION {{[i \in 1..n |-> [id |-> Oid(i), f |-> fs[i]]] : fs \in [1..n -> [Fields -> FieldVals]]}
           : n \in 0..MaxQueryItems}

Sizes == {SearchCap - 1, SearchCap, SearchCap + 1, ListCap - 1, ListCap, ListCap + 1, MaxDocs}

InitQuery ==
    /\ cocktails \in Varied \cup {Uniform(n) : n \in Sizes}
    /\ assets = {}
    /\ collection = "handle"
    /\ assigns = 1
    /\ server = "listening"
    /\ client = "connected"
    /\ startPc = "done"
    /\ shutdownPc = [c \in Calls |-> "none"]
    /\ exited = "no"
    /\ inflight = [i \in Slots |-> Idle]
    /\ nextOid = Len(cocktails) + 1
    /\ last = NoLast

QueryPaginations == {QAbsent, QNum(1), QNum(-1)}
QueryLimits ==
    {QAbsent, QText} \cup
    {QNum(n) : n \in {0, 1, 2, -1, SearchCap, SearchCap + 1, -(SearchCap + 1),
                      ListCap, ListCap + 1, -(ListCap + 1), 10 * ListCap}}
OneValue == {Filter(n, {v}) : n \in Fields, v \in Vals}
AnyValue == {Filter(n, Vals) : n \in Fields}
QueryFilters ==
    {NoFilters, BadFilters}
    \cup {JsonFilters(<< f >>) : f \in OneValue \cup AnyValue}
    \cup {JsonFilters(<< f, g >>) : f \in OneValue, g \in OneValue}

QueryListReqs ==
    {ListReq(p, l, fl) : p \in QueryPaginations, l \in QueryLimits, fl \in QueryFilters}
QuerySearchReqs ==
    {SearchReq(p, l, s) : p \in QueryPaginations, l \in QueryLimits, s \in {"", "a", "b"}}

\* A read leaves the collection as it was: one request per behaviour.
NextQuery ==
    \/ Drained /\ last = NoLast /\ \E r \in QueryListReqs : GetItemsRoute(r)
    \/ Drained /\ last = NoLast /\ \E r \in QuerySearchReqs : SearchRoute(r)
    \/ \E i \in Slots : GetItemsDone(i)
    \/ \E i \in Slots : SearchDone(i)

SpecQuery == InitQuery /\ [][NextQuery]_vars

---------------------------------------------------------------------------
(* Properties *)

Ids(coll) == {coll[i].id : i \in DOMAIN coll}
Answered200(op) == last.op = op /\ last.status = 200

\* C1: every item listItems returns has, for every filter of the request, a
\* value of the filter's field among the filter's permitted values, also when
\* two filters of the request name the same field.
C1_ListHonoursEveryFilter ==
    Answered200("get-items") =>
        \A i \in DOMAIN last.items : \A k \in DOMAIN last.req.filters.fs :
            LET flt == last.req.filters.fs[k]
            IN  last.items[i].f[flt.filterName] \in flt.filterValues

\* C2 as stated: isEndOfCollection is true iff fewer items came back than the
\* limit the client asked for.
C2_EndFlagAgainstRequestedLimit ==
    (last.op \in {"get-items", "search"} /\ last.status = 200
        /\ last.req.limit.kind = "num")
    => (last.isEndOfCollection <=> Len(last.items) < last.req.limit.v)

\* the limit the route passes on: the requested one, or DefaultLimit when it is
\* absent, not a number or zero, and at most the route's cap
AppliedLimit(r) ==
    LET asked == IF r.limit.kind = "num" /\ r.limit.v # 0 THEN r.limit.v
                 ELSE DefaultLimit
        cap == IF r.op = "get-items" THEN ListCap ELSE SearchCap
    IN  IF asked > cap THEN cap ELSE asked

\* C2 amended: isEndOfCollection is true iff fewer items came back than the
\* limit the route applied (the requested limit after defaulting and capping).
C2_EndFlagAgainstAppliedLimit ==
    (last.op \in {"get-items", "search"} /\ last.status = 200)
    => (last.isEndOfCollection <=> Len(last.items) < AppliedLimit(last.req))

\* C2 witness: a listing that asked for more than the cap got exactly the cap
\* and is not flagged as the end.
C2_Witness ==
    /\ Answered200("get-items")
    /\ last.req.limit = QNum(10 * ListCap)
    /\ Len(last.items) = ListCap
    /\ ~last.isEndOfCollection

C5_MissingInputRejected ==
    LET r == last.req
        lacks == \/ last.op = "search" /\ r.search = ""
                 \/ last.op = "add" /\ r.id = NoId /\ r.body = NoBody
                 \/ last.op = "edit" /\ r.id = NoId
                 \/ last.op = "delete" /\ r.id = NoId
                 \/ last.op = "delete-image" /\ r.pid = 0
    IN  lacks => /\ last.status = 400
                 /\ last.storeOps = 0 /\ last.mediaOps = 0
                 /\ last.after = last.before
                 /\ last.assetsAfter = last.assetsBefore

\* C5 witness: an update without _id was refused while the collection and the
\* media store both held something.
C5_Witness ==
    /\ last.op = "edit" /\ last.req.id = NoId /\ last.status = 400
    /\ last.before # << >> /\ last.assetsBefore # {}

\* C6: every create with a non-empty payload, also one that carries an _id,
\* is answered 201, appends exactly one item whose identifier is the returned
\* one and differs from all identifiers already there, and leaves the rest.
C6_CreateAlwaysAddsOne ==
    (last.op = "add" /\ ~(last.req.id = NoId /\ last.req.body = NoBody)) =>
        /\ last.status = 201
        /\ last.insertedId \notin Ids(last.before)
        /\ last.after = Append(last.before,
                               [id |-> last.insertedId, f |-> last.req.body])

\* C7: an update or delete with a malformed identifier is answered 500
\* without reaching the store, and the collection stays as it was.
C7_MalformedIdRejected ==
    (last.op \in {"edit", "delete"} /\ last.req.id = BadId) =>
        /\ last.status = 500
        /\ last.storeOps = 0
        /\ last.after = last.before

\* C7 witness: a delete with a malformed identifier was refused while the
\* collection held a document.
C7_Witness ==
    /\ last.op = "delete" /\ last.req.id = BadId /\ last.status = 500
    /\ last.before # << >>

\* C8: once shutdown runs the server no longer accepts; the server is closed
\* only with no request in flight; the client is closed only after that, so
\* no request is in flight (none can use the store) once the connection is
\* being released; shutdown exits the process only with the client closed.
C8_ShutdownOrder ==
    /\ (\E c \in Calls : shutdownPc[c] # "none") => server # "listening"
    /\ server = "closed" => \A i \in Slots : inflight[i] = Idle
    /\ client \in {"closing", "closed"} =>
         /\ server \in {"undefined", "closed"}
         /\ \A i \in Slots : inflight[i] = Idle
    /\ (last.storeOps = 1 /\ last.op # "none") => last.status \in {200, 201}
    /\ exited = "shutdown" => client = "closed"

\* C8 witness: shutdown was triggered as often as the model allows, a request
\* was answered from the store while the server was closing, and the process
\* has exited from shutdown.
C8_Witness ==
    /\ exited = "shutdown"
    /\ \A c \in Calls : shutdownPc[c] # "none"
    /\ last.closing /\ last.storeOps = 1

\* C10: the handle is assigned at most once, is set whenever the server
\* exists and whenever a request was accepted, and a failed connect exits the
\* process with no server and no request ever accepted.
C10_HandleAssignedOnce ==
    /\ assigns <= 1
    /\ (collection = "handle") <=> (assigns = 1)
    /\ server # "undefined" => collection = "handle"
    /\ ((\E i \in Slots : inflight[i] # Idle) \/ last.op # "none")
         => collection = "handle"
    /\ exited = "startServer" =>
         /\ server = "undefined"
         /\ last.op = "none"
         /\ \A i \in Slots : inflight[i] = Idle

\* C10 witness: a request was answered from the store through the handle
\* assigned at startup.
C10_Witness ==
    /\ last.storeOps = 1 /\ last.status \in {200, 201}
    /\ collection = "handle" /\ assigns = 1

\* C9: a listing never returns more than ListCap items and a search never
\* more than SearchCap, whatever limit the client sent.
C9_ResponseWithinCap ==
    /\ last.op = "get-items" => Len(last.items) <= ListCap
    /\ last.op = "search" => Len(last.items) <= SearchCap

====
